---- MODULE Spec2Model ----
(***************************************************************************)
(* The connection-driven type negotiation of the IfElse node               *)
(* (griptape_nodes_library/execution/if_else.py).                          *)
(*                                                                         *)
(* A node object is a record of its fields; every method of the class is   *)
(* an operator from the node (and the method's arguments) to the node      *)
(* after the call.  The host engine is the environment: it keeps the       *)
(* connection graph and calls the four connection callbacks.               *)
(***************************************************************************)
EXTENDS Integers, Sequences, FiniteSets, TLC

VARIABLES
    node,           \* the IfElse instance under test
    incoming,       \* host graph: {<<target port, producer>>} into the data inputs
    outgoing,       \* host graph: consumers the "output" port is connected to
    last,           \* the last callback the host made on node, with its arguments
    peer,           \* a second IfElse instance, driven by another callback history
    peer_incoming,  \* host graph of peer
    peer_outgoing,
    run,            \* the fields of node that its evaluation reads and writes
    ret,            \* the last evaluation call the host made on node, and its outcome
    create_variable,    \* a CreateVariable node
    variable_incoming,  \* the incoming connections of create_variable in the host
    variable_last,      \* the last callback the host made on create_variable
    rename_file,        \* a RenameFile node and the position of its process
    file_system,        \* the paths that exist
    requests            \* the requests process has issued, with their results

vars == <<node, incoming, outgoing, last, peer, peer_incoming, peer_outgoing, run, ret,
          create_variable, variable_incoming, variable_last,
          rename_file, file_system, requests>>

\* The variables of the IfElse nodes, of the CreateVariable node and of the
\* RenameFile node
if_else_vars == <<node, incoming, outgoing, last, peer, peer_incoming, peer_outgoing, run, ret>>

variable_vars == <<create_variable, variable_incoming, variable_last>>

rename_vars == <<rename_file, file_system, requests>>

-----------------------------------------------------------------------------
(* Bounds of the model *)

\* producers the host lets share one input port
MaxProducersPerPort == 2

-----------------------------------------------------------------------------
(* Values *)

\* Python's None, for a str | None field
None == "<None>"

\* ParameterTypeBuiltin.ALL.value, the "produces anything" marker of the output
ALL == "all"

\* The outcome of a call that raised exception exc instead of returning
Raise(exc) == [raised |-> exc, value |-> FALSE]

\* Python truthiness of a str | None value (if self._locked_type:)
Truthy(x) == x # None /\ x # ""

\* x in list
InList(x, list) == \E i \in 1..Len(list) : list[i] = x

\* The elements of a list, as a set
Elems(list) == {list[i] : i \in 1..Len(list)}

\* Parameters of other nodes that get connected to the input ports:
\* source_parameter.output_type, source_parameter.type
Producers ==
    { [output_type |-> "string",           type |-> "string"],
      [output_type |-> "",                 type |-> "int"],
      [output_type |-> "ImageArtifact",    type |-> "ImageArtifact"],
      [output_type |-> "ImageUrlArtifact", type |-> "ImageUrlArtifact"] }

\* Parameters of other nodes the output port gets connected to:
\* target_parameter.input_types, target_parameter.type
Consumers ==
    { [input_types |-> <<>>,                type |-> "string"],
      [input_types |-> <<"string", "int">>, type |-> "string"] }

\* Parameter names of IfElse that can be the target of an incoming connection
TargetNames == {"output_if_true", "output_if_false", "evaluate"}

\* Parameter names of IfElse that can be the source of an outgoing connection
SourceNames == {"output", "Then"}

\* Type tags that occur
TypeTags == {"string", "int", "ImageArtifact", "ImageUrlArtifact", "any"}

-----------------------------------------------------------------------------
(* IfElse *)

\* _type_groups in which a URL artifact is grouped with itself alone, so
\* that the plain artifact is compatible with the URL form but not back
_type_groups_one_way ==
    [t \in {"ImageArtifact", "ImageUrlArtifact", "AudioArtifact",
            "AudioUrlArtifact", "VideoArtifact", "VideoUrlArtifact"} |->
        CASE t = "ImageArtifact" -> <<"ImageArtifact", "ImageUrlArtifact">>
          [] t = "AudioArtifact" -> <<"AudioArtifact", "AudioUrlArtifact">>
          [] t = "VideoArtifact" -> <<"VideoArtifact", "VideoUrlArtifact">>
          [] OTHER -> <<t>>]

\* self._type_groups
_type_groups ==
    [t \in {"ImageArtifact", "ImageUrlArtifact", "AudioArtifact",
            "AudioUrlArtifact", "VideoArtifact", "VideoUrlArtifact"} |->
        CASE t \in {"ImageArtifact", "ImageUrlArtifact"} -> <<"ImageArtifact", "ImageUrlArtifact">>
          [] t \in {"AudioArtifact", "AudioUrlArtifact"} -> <<"AudioArtifact", "AudioUrlArtifact">>
          [] t \in {"VideoArtifact", "VideoUrlArtifact"} -> <<"VideoArtifact", "VideoUrlArtifact">>]

\* IfElse.__init__: the fields of a fresh node
IfElse ==
    [ output_if_true    |-> [input_types |-> <<"any">>, type |-> "any"],
      output_if_false   |-> [input_types |-> <<"any">>, type |-> "any"],
      output            |-> [output_type |-> ALL, type |-> ALL],
      _possibility_space |-> <<>>,
      _locked_type       |-> None,
      _connected_inputs  |-> {},
      _output_connected  |-> FALSE ]

\* _get_compatible_types without the group table: a type is compatible with
\* itself only
_get_compatible_types_self_only(self, type_name) == <<type_name>>

\* IfElse._get_compatible_types
_get_compatible_types(self, type_name) ==
    IF type_name \in DOMAIN _type_groups
    THEN _type_groups[type_name]
    ELSE <<type_name>>

\* _update_parameter_types that extends the accepted types of the inputs in
\* POSSIBILITY mode, while they are few, instead of replacing them
_update_parameter_types_extends(self) ==
    IF Truthy(self._locked_type)
    THEN LET compatible_types == _get_compatible_types(self, self._locked_type)
         IN  [self EXCEPT
                !.output_if_true  = [input_types |-> compatible_types, type |-> self._locked_type],
                !.output_if_false = [input_types |-> compatible_types, type |-> self._locked_type],
                !.output          = [output_type |-> self._locked_type, type |-> self._locked_type]]
    ELSE IF self._possibility_space # <<>>
    THEN [self EXCEPT
            !.output_if_true  = [input_types |-> IF Len(@.input_types) < 4
                                                 THEN @.input_types \o self._possibility_space
                                                 ELSE @.input_types,
                                 type |-> "any"],
            !.output_if_false = [input_types |-> IF Len(@.input_types) < 4
                                                 THEN @.input_types \o self._possibility_space
                                                 ELSE @.input_types,
                                 type |-> "any"],
            !.output          = [output_type |-> ALL, type |-> ALL]]
    ELSE [self EXCEPT
            !.output_if_true  = [input_types |-> <<"any">>, type |-> "any"],
            !.output_if_false = [input_types |-> <<"any">>, type |-> "any"],
            !.output          = [output_type |-> ALL, type |-> ALL]]

\* _update_parameter_types with the two first branches in the other order:
\* the possibility space is looked at before the lock
_update_parameter_types_space_first(self) ==
    IF self._possibility_space # <<>>
    THEN [self EXCEPT
            !.output_if_true  = [input_types |-> self._possibility_space, type |-> "any"],
            !.output_if_false = [input_types |-> self._possibility_space, type |-> "any"],
            !.output          = [output_type |-> ALL, type |-> ALL]]
    ELSE IF Truthy(self._locked_type)
    THEN LET compatible_types == _get_compatible_types(self, self._locked_type)
         IN  [self EXCEPT
                !.output_if_true  = [input_types |-> compatible_types, type |-> self._locked_type],
                !.output_if_false = [input_types |-> compatible_types, type |-> self._locked_type],
                !.output          = [output_type |-> self._locked_type, type |-> self._locked_type]]
    ELSE [self EXCEPT
            !.output_if_true  = [input_types |-> <<"any">>, type |-> "any"],
            !.output_if_false = [input_types |-> <<"any">>, type |-> "any"],
            !.output          = [output_type |-> ALL, type |-> ALL]]

\* IfElse._update_parameter_types
_update_parameter_types(self) ==
    IF Truthy(self._locked_type)
    THEN LET compatible_types == _get_compatible_types(self, self._locked_type)
         IN  [self EXCEPT
                !.output_if_true  = [input_types |-> compatible_types, type |-> self._locked_type],
                !.output_if_false = [input_types |-> compatible_types, type |-> self._locked_type],
                !.output          = [output_type |-> self._locked_type, type |-> self._locked_type]]
    ELSE IF self._possibility_space # <<>>
    THEN [self EXCEPT
            !.output_if_true  = [input_types |-> self._possibility_space, type |-> "any"],
            !.output_if_false = [input_types |-> self._possibility_space, type |-> "any"],
            !.output          = [output_type |-> ALL, type |-> ALL]]
    ELSE [self EXCEPT
            !.output_if_true  = [input_types |-> <<"any">>, type |-> "any"],
            !.output_if_false = [input_types |-> <<"any">>, type |-> "any"],
            !.output          = [output_type |-> ALL, type |-> ALL]]

\* _can_accept_input_type comparing with the locked type itself instead of
\* its compatible types
_can_accept_input_type_exact(self, input_type) ==
    IF Truthy(self._locked_type)
    THEN input_type = self._locked_type
    ELSE IF self._possibility_space # <<>>
    THEN InList(input_type, self._possibility_space)
    ELSE TRUE

\* IfElse._can_accept_input_type
_can_accept_input_type(self, input_type) ==
    IF Truthy(self._locked_type)
    THEN InList(input_type, _get_compatible_types(self, self._locked_type))
    ELSE IF self._possibility_space # <<>>
    THEN InList(input_type, self._possibility_space)
    ELSE TRUE

\* _set_locked_type without the recomputation of the port types
_set_locked_type_no_update(self, type_to_lock) ==
    [self EXCEPT !._locked_type = type_to_lock]

\* IfElse._set_locked_type
_set_locked_type(self, type_to_lock) ==
    _update_parameter_types([self EXCEPT !._locked_type = type_to_lock])

\* _clear_locked_type without the recomputation of the port types
_clear_locked_type_no_update(self) ==
    [self EXCEPT !._locked_type = None]

\* IfElse._clear_locked_type
_clear_locked_type(self) ==
    _update_parameter_types([self EXCEPT !._locked_type = None])

\* _set_possibility_space that renegotiates: the new space replaces the lock
_set_possibility_space_unlocks(self, possible_types) ==
    _update_parameter_types(
        [self EXCEPT !._possibility_space = possible_types, !._locked_type = None])

\* IfElse._set_possibility_space
_set_possibility_space(self, possible_types) ==
    LET s == [self EXCEPT !._possibility_space = possible_types]
    IN  IF ~Truthy(s._locked_type) THEN _update_parameter_types(s) ELSE s

\* _clear_possibility_space without the recomputation of the port types
_clear_possibility_space_no_update(self) ==
    [self EXCEPT !._possibility_space = <<>>]

\* IfElse._clear_possibility_space
_clear_possibility_space(self) ==
    LET s == [self EXCEPT !._possibility_space = <<>>]
    IN  IF ~Truthy(s._locked_type) THEN _update_parameter_types(s) ELSE s

\* source_parameter.output_type or source_parameter.type
SourceType(source_parameter) ==
    IF source_parameter.output_type # ""
    THEN source_parameter.output_type
    ELSE source_parameter.type

\* target_parameter.input_types or [target_parameter.type]
TargetInputTypes(target_parameter) ==
    IF target_parameter.input_types # <<>>
    THEN target_parameter.input_types
    ELSE <<target_parameter.type>>

\* after_incoming_connection that does not track a rejected connection
after_incoming_connection_drops_rejected(self, source_parameter, target_name) ==
    IF target_name \in {"output_if_true", "output_if_false"}
    THEN LET source_type == SourceType(source_parameter)
         IN  IF _can_accept_input_type(self, source_type)
             THEN LET s == IF ~Truthy(self._locked_type)
                           THEN _set_locked_type(self, source_type)
                           ELSE self
                  IN  [s EXCEPT !._connected_inputs = @ \cup {target_name}]
             ELSE self
    ELSE self

\* after_incoming_connection in which every accepted connection takes the
\* lock: the last connection wins
after_incoming_connection_relocks(self, source_parameter, target_name) ==
    IF target_name \in {"output_if_true", "output_if_false"}
    THEN LET source_type == SourceType(source_parameter)
         IN  IF _can_accept_input_type(self, source_type)
             THEN [_set_locked_type(self, source_type) EXCEPT
                      !._connected_inputs = @ \cup {target_name}]
             ELSE [self EXCEPT !._connected_inputs = @ \cup {target_name}]
    ELSE self

\* IfElse.after_incoming_connection
after_incoming_connection(self, source_parameter, target_name) ==
    IF target_name \in {"output_if_true", "output_if_false"}
    THEN LET source_type == SourceType(source_parameter)
         IN  IF _can_accept_input_type(self, source_type)
             THEN LET s == IF ~Truthy(self._locked_type)
                           THEN _set_locked_type(self, source_type)
                           ELSE self
                  IN  [s EXCEPT !._connected_inputs = @ \cup {target_name}]
             ELSE [self EXCEPT !._connected_inputs = @ \cup {target_name}]
    ELSE self

\* after_outgoing_connection reading the target's type instead of its
\* input_types
after_outgoing_connection_declared_type_only(self, source_name, target_parameter) ==
    IF source_name = "output"
    THEN LET s == _set_possibility_space(self, <<target_parameter.type>>)
         IN  [s EXCEPT !._output_connected = TRUE]
    ELSE self

\* IfElse.after_outgoing_connection
after_outgoing_connection(self, source_name, target_parameter) ==
    IF source_name = "output"
    THEN LET s == _set_possibility_space(self, TargetInputTypes(target_parameter))
         IN  [s EXCEPT !._output_connected = TRUE]
    ELSE self

\* after_incoming_connection_removed with set.remove in the place of
\* set.discard: KeyError for a port that is not tracked
after_incoming_connection_removed_strict(self, source_parameter, target_name) ==
    IF target_name \in {"output_if_true", "output_if_false"}
    THEN IF target_name \notin self._connected_inputs
         THEN Raise("KeyError")
         ELSE LET s == [self EXCEPT !._connected_inputs = @ \ {target_name}]
              IN  IF s._connected_inputs = {} THEN _clear_locked_type(s) ELSE s
    ELSE self

\* after_incoming_connection_removed that forgets to clear the lock
after_incoming_connection_removed_keeps_lock(self, source_parameter, target_name) ==
    IF target_name \in {"output_if_true", "output_if_false"}
    THEN [self EXCEPT !._connected_inputs = @ \ {target_name}]
    ELSE self

\* after_incoming_connection_removed that clears the lock on every removal
after_incoming_connection_removed_always_unlocks(self, source_parameter, target_name) ==
    IF target_name \in {"output_if_true", "output_if_false"}
    THEN _clear_locked_type([self EXCEPT !._connected_inputs = @ \ {target_name}])
    ELSE self

\* IfElse.after_incoming_connection_removed
after_incoming_connection_removed(self, source_parameter, target_name) ==
    IF target_name \in {"output_if_true", "output_if_false"}
    THEN LET s == [self EXCEPT !._connected_inputs = @ \ {target_name}]
         IN  IF s._connected_inputs = {} THEN _clear_locked_type(s) ELSE s
    ELSE self

\* after_outgoing_connection_removed that does not look at which parameter
\* lost its connection
after_outgoing_connection_removed_any_source(self, source_name, target_parameter) ==
    [_clear_possibility_space(self) EXCEPT !._output_connected = FALSE]

\* IfElse.after_outgoing_connection_removed
after_outgoing_connection_removed(self, source_name, target_parameter) ==
    IF source_name = "output"
    THEN LET s == _clear_possibility_space(self)
         IN  [s EXCEPT !._output_connected = FALSE]
    ELSE self

-----------------------------------------------------------------------------
(* Evaluation of IfElse: the condition, process, the control output and    *)
(* the spotlight.  A str is a sequence of one-character strings, so that   *)
(* lower() and strip() are computed.                                       *)

\* A Python value held by the "evaluate" parameter: its type and, for the
\* three types check_evaluation tells apart, its content
Value(kind, str, int, bool) == [kind |-> kind, str |-> str, int |-> int, bool |-> bool]

StrValue(chars) == Value("str", chars, 0, FALSE)
IntValue(i) == Value("int", <<>>, i, FALSE)
BoolValue(b) == Value("bool", <<>>, 0, b)
OtherValue(kind) == Value(kind, <<>>, 0, FALSE)

\* Values the "evaluate" parameter is given
ConditionValues ==
    { StrValue(<<>>),
      StrValue(<<"N", "o">>),
      StrValue(<<" ", "0", "\n">>),
      StrValue(<<"0", "0">>),
      StrValue(<<"y", "e", "s">>),
      StrValue(<<"F", "A", "L", "S", "E">>),
      IntValue(0), IntValue(1), IntValue(-1),
      BoolValue(TRUE), BoolValue(FALSE),
      OtherValue("NoneType"), OtherValue("float"), OtherValue("list") }

\* Values the two data inputs are given
DataValues == {"a", "b"}

\* The parameters the spotlight can be on
SpotlightNames == {"evaluate", "output_if_true", "output_if_false"}

\* allowed_modes of the parameters, which Parameter.get_mode() returns
AllowedModes ==
    [p \in SpotlightNames |->
        IF p = "evaluate" THEN {"INPUT", "PROPERTY"} ELSE {"INPUT"}]

\* The outcome of a call that returned value and left the object as self
Result(self, value) == [self |-> self, raised |-> "", value |-> value]

\* str.lower() on one character
LowerChar(c) ==
    LET upper == <<"A", "B", "C", "D", "E", "F", "G", "H", "I", "J", "K", "L", "M", "N", "O", "P", "Q", "R", "S", "T", "U", "V", "W", "X", "Y", "Z">>
        lower == <<"a", "b", "c", "d", "e", "f", "g", "h", "i", "j", "k", "l", "m", "n", "o", "p", "q", "r", "s", "t", "u", "v", "w", "x", "y", "z">>
    IN  IF \E i \in 1..26 : upper[i] = c
        THEN lower[CHOOSE i \in 1..26 : upper[i] = c]
        ELSE c

\* str.lower()
Lower(str) == [i \in 1..Len(str) |-> LowerChar(str[i])]

Whitespace == {" ", "\t", "\n", "\r"}

\* str.strip()
Strip(str) ==
    LET kept == {i \in 1..Len(str) : str[i] \notin Whitespace}
    IN  IF kept = {} THEN <<>>
        ELSE LET first == CHOOSE i \in kept : \A j \in kept : i <= j
                 final == CHOOSE i \in kept : \A j \in kept : j <= i
             IN  SubSeq(str, first, final)

\* false_values of check_evaluation
false_values ==
    { <<"f", "a", "l", "s", "e">>,
      <<"f", "a", "l", "s", "e", "y">>,
      <<"f">>,
      <<"n", "o">>,
      <<"n">>,
      <<"n", "e", "g", "a", "t", "i", "v", "e">>,
      <<"o", "f", "f">>,
      <<"z", "e", "r", "o">>,
      <<"0", ".", "0">>,
      <<"0">>,
      <<>>,
      <<"n", "o", "p", "e">>,
      <<"n", "a", "h">>,
      <<"n", "o", "n", "e">>,
      <<"n", "u", "l", "l">>,
      <<"n", "y", "e", "t">>,
      <<"n", "e", "i", "n">>,
      <<"d", "i", "s", "a", "b", "l", "e", "d">> }

\* The evaluation fields of a fresh node: parameter_values holds the
\* default values of the three parameters, parameter_output_values is
\* empty, no parameter is linked, the spotlight is on nothing
IfElseRun ==
    [ parameter_values |->
          [evaluate |-> BoolValue(FALSE), output_if_true |-> None, output_if_false |-> None],
      parameter_output_values |-> <<>>,
      stop_flow |-> FALSE,
      current_spotlight_parameter |-> None,
      next |-> [p \in SpotlightNames |-> None],
      prev |-> [p \in SpotlightNames |-> None] ]

\* Before the host has made any evaluation call
NoEvaluationCall == [op |-> "__init__", raised |-> "", value |-> None]

\* self.get_parameter_value(name)
get_parameter_value(self, name) == self.parameter_values[name]

\* dict[key] = value
DictSet(dict, key, value) ==
    [k \in DOMAIN dict \cup {key} |-> IF k = key THEN value ELSE dict[k]]

\* check_evaluation taking a value of any other type for false
check_evaluation_defaults_false(self) ==
    LET value == get_parameter_value(self, "evaluate")
    IN  IF value.kind = "str"
        THEN Result(self, Strip(Lower(value.str)) \notin false_values)
        ELSE IF value.kind \in {"int", "bool"}
        THEN Result(self, IF value.kind = "bool" THEN value.bool ELSE value.int # 0)
        ELSE Result(self, FALSE)

\* IfElse.check_evaluation
check_evaluation(self) ==
    LET value == get_parameter_value(self, "evaluate")
    IN  IF value.kind = "str"
        THEN Result(self, Strip(Lower(value.str)) \notin false_values)
        ELSE IF value.kind \in {"int", "bool"}
        THEN Result(self, IF value.kind = "bool" THEN value.bool ELSE value.int # 0)
        ELSE Raise("TypeError")

\* process reading the branches the wrong way round
process_swapped(self) ==
    LET evaluation == check_evaluation(self)
    IN  IF evaluation.raised # ""
        THEN evaluation
        ELSE LET evaluation_result == evaluation.value
                 selected_value ==
                     IF evaluation_result
                     THEN get_parameter_value(self, "output_if_false")
                     ELSE get_parameter_value(self, "output_if_true")
             IN  Result([self EXCEPT !.parameter_output_values =
                            DictSet(DictSet(@, "evaluate", evaluation_result),
                                    "output", selected_value)],
                        None)

\* process that also drops the lock of the node once it has forwarded a value
process_unlocking(self) ==
    LET evaluation == check_evaluation(self)
    IN  IF evaluation.raised # ""
        THEN evaluation
        ELSE LET evaluation_result == evaluation.value
                 selected_value ==
                     IF evaluation_result
                     THEN get_parameter_value(self, "output_if_true")
                     ELSE get_parameter_value(self, "output_if_false")
             IN  Result([_clear_locked_type(self) EXCEPT !.parameter_output_values =
                            DictSet(DictSet(@, "evaluate", evaluation_result),
                                    "output", selected_value)],
                        None)

\* IfElse.process
process(self) ==
    LET evaluation == check_evaluation(self)
    IN  IF evaluation.raised # ""
        THEN evaluation
        ELSE LET evaluation_result == evaluation.value
                 selected_value ==
                     IF evaluation_result
                     THEN get_parameter_value(self, "output_if_true")
                     ELSE get_parameter_value(self, "output_if_false")
             IN  Result([self EXCEPT !.parameter_output_values =
                            DictSet(DictSet(@, "evaluate", evaluation_result),
                                    "output", selected_value)],
                        None)

\* get_next_control_output with the two control outputs the wrong way round
get_next_control_output_swapped(self) ==
    IF "evaluate" \notin DOMAIN self.parameter_output_values
    THEN Result([self EXCEPT !.stop_flow = TRUE], None)
    ELSE IF self.parameter_output_values["evaluate"]
    THEN Result(self, "Else")
    ELSE Result(self, "Then")

\* IfElse.get_next_control_output
get_next_control_output(self) ==
    IF "evaluate" \notin DOMAIN self.parameter_output_values
    THEN Result([self EXCEPT !.stop_flow = TRUE], None)
    ELSE IF self.parameter_output_values["evaluate"]
    THEN Result(self, "Then")
    ELSE Result(self, "Else")

\* IfElse.initialize_spotlight
initialize_spotlight(self) ==
    IF "INPUT" \in AllowedModes["evaluate"]
    THEN Result([self EXCEPT !.current_spotlight_parameter = "evaluate"], None)
    ELSE Result(self, None)

\* Default advancement that starts over at "evaluate" when there is no next
\* parameter
DefaultAdvance_wraps(self) ==
    IF self.next[self.current_spotlight_parameter] # None
    THEN Result([self EXCEPT !.current_spotlight_parameter = self.next[@]], TRUE)
    ELSE Result([self EXCEPT !.current_spotlight_parameter = "evaluate"], TRUE)

\* The default advancement at the end of advance_parameter
DefaultAdvance(self) ==
    IF self.next[self.current_spotlight_parameter] # None
    THEN Result([self EXCEPT !.current_spotlight_parameter = self.next[@]], TRUE)
    ELSE Result([self EXCEPT !.current_spotlight_parameter = None], FALSE)

\* advance_parameter following the link an earlier traversal left on
\* "evaluate" before it evaluates the condition
advance_parameter_follows_link(self) ==
    IF self.current_spotlight_parameter = None
    THEN Result(self, FALSE)
    ELSE IF self.current_spotlight_parameter = "evaluate" /\ self.next["evaluate"] = None
    THEN LET evaluation == check_evaluation(self)
         IN  IF evaluation.raised # ""
             THEN Result([self EXCEPT !.current_spotlight_parameter = None], FALSE)
             ELSE LET next_param == IF evaluation.value THEN "output_if_true"
                                                        ELSE "output_if_false"
                  IN  Result([self EXCEPT
                                 !.next["evaluate"] = next_param,
                                 !.prev[next_param] = "evaluate",
                                 !.current_spotlight_parameter = next_param],
                             TRUE)
    ELSE DefaultAdvance(self)

\* IfElse.advance_parameter
advance_parameter(self) ==
    IF self.current_spotlight_parameter = None
    THEN Result(self, FALSE)
    ELSE IF self.current_spotlight_parameter = "evaluate"
    THEN LET evaluation == check_evaluation(self)
         IN  IF evaluation.raised # ""
             THEN Result([self EXCEPT !.current_spotlight_parameter = None], FALSE)
             ELSE LET next_param == IF evaluation.value THEN "output_if_true"
                                                        ELSE "output_if_false"
                  IN  IF "INPUT" \in AllowedModes[next_param]
                      THEN Result([self EXCEPT
                                      !.next["evaluate"] = next_param,
                                      !.prev[next_param] = "evaluate",
                                      !.current_spotlight_parameter = next_param],
                                  TRUE)
                      ELSE DefaultAdvance(self)
    ELSE DefaultAdvance(self)

-----------------------------------------------------------------------------
(* CreateVariable: the incoming-connection callbacks.  The engine answers  *)
(* the requests the node sends; its answers are inputs of the callbacks.   *)

\* The parameters of CreateVariable that take incoming connections
VariableTargetNames == {"variable_name", "variable_type", "value"}

\* Parameters of other nodes that get connected: source_parameter.output_type
VariableProducers == {[output_type |-> "str"], [output_type |-> "int"]}

\* The incoming connections of the node there can be
VariableConnections == VariableTargetNames \X VariableProducers

\* The outcome of a call that raised exc and left the object as self
Raised(self, exc) == [self |-> self, raised |-> exc, value |-> None]

\* CreateVariable.__init__: variable_type_param and value_param, and the
\* value of variable_type
CreateVariable ==
    [ variable_type_param |->
          [allowed_modes |-> {"INPUT", "OUTPUT", "PROPERTY"}, settable |-> TRUE],
      value_param |-> [type |-> "any", input_types |-> <<"any">>, output_type |-> ALL],
      parameter_values |-> [variable_type |-> None] ]

\* Before the host has made any callback; recent_on_value is the most recent
\* callback whose target was the value parameter
NoVariableCall ==
    [op |-> "__init__", param |-> "", raised |-> "", recent_on_value |-> "none"]

\* What the engine answers during one callback: whether it lists the
\* connections, which of the connections to delete it fails on or does not
\* get to, and whether the cleanup of the value connections succeeds
EngineAnswers ==
    [listed : BOOLEAN,
     undeleted : SUBSET {c \in VariableConnections : c[1] = "variable_type"},
     cleaned : BOOLEAN]

\* CreateVariable.after_incoming_connection_removed that restores the
\* parameter whatever the target of the removed connection
CreateVariable_after_incoming_connection_removed_any_target(self, target_name) ==
    Result([self EXCEPT
               !.variable_type_param.allowed_modes = @ \cup {"INPUT"},
               !.variable_type_param.settable = TRUE],
           None)

\* CreateVariable.after_incoming_connection_removed
CreateVariable_after_incoming_connection_removed(self, target_name) ==
    IF target_name = "value"
    THEN Result([self EXCEPT
                    !.variable_type_param.allowed_modes = @ \cup {"INPUT"},
                    !.variable_type_param.settable = TRUE],
                None)
    ELSE Result(self, None)

\* CreateVariable._delete_incoming_connections_to_parameter: the node and
\* its connections afterwards.  The engine calls
\* after_incoming_connection_removed for a connection it deletes.
_delete_incoming_connections_to_parameter(self, connections, parameter_name, engine) ==
    LET to_delete == {c \in connections : c[1] = parameter_name}
        undeleted == to_delete \cap engine.undeleted
        deleted == to_delete \ undeleted
        notified ==
            IF deleted = {} THEN self
            ELSE CreateVariable_after_incoming_connection_removed(self, parameter_name).self
    IN  IF ~engine.listed
        THEN [self |-> self, connections |-> connections, raised |-> "TypeError"]
        ELSE [self |-> notified, connections |-> connections \ deleted,
              raised |-> IF undeleted # {} THEN "TypeError" ELSE ""]

\* CreateVariable.before_value_set for variable_type, with
\* _cleanup_incompatible_value_connections answered by the engine
before_value_set(self, value, engine) ==
    LET typed ==
            IF value = None \/ value = ""
            THEN [self EXCEPT !.value_param.type = "any", !.value_param.output_type = ALL]
            ELSE [self EXCEPT !.value_param.type = value, !.value_param.output_type = value]
    IN  IF value # None /\ value # "" /\ ~engine.cleaned
        THEN Raised(typed, "TypeError")
        ELSE Result(typed, IF value = "" THEN None ELSE value)

\* CreateVariable.after_incoming_connection: the node and its connections
\* afterwards
CreateVariable_after_incoming_connection(self, connections, source_parameter, target_name, engine) ==
    IF target_name = "value"
    THEN LET detected_type == source_parameter.output_type
             locked == [self EXCEPT
                           !.variable_type_param.allowed_modes = @ \ {"INPUT"},
                           !.variable_type_param.settable = FALSE]
             deletion == _delete_incoming_connections_to_parameter(
                             locked, connections, "variable_type", engine)
             setting == before_value_set(deletion.self, detected_type, engine)
         IN  IF deletion.raised # ""
             THEN deletion
             ELSE IF setting.raised # ""
             THEN [self |-> setting.self, connections |-> deletion.connections,
                   raised |-> setting.raised]
             ELSE [self |-> [setting.self EXCEPT
                                !.parameter_values.variable_type = setting.value],
                   connections |-> deletion.connections, raised |-> ""]
    ELSE [self |-> self, connections |-> connections, raised |-> ""]

-----------------------------------------------------------------------------
(* RenameFile: process, one step for each answer it waits for.  A path is  *)
(* the sequence of its components; "" is the empty sequence.               *)

\* Values the host gives old_path, new_path and overwrite; an unset
\* overwrite is None
OldPaths == {<<"d", "a">>, <<"d", "b">>}

NewPaths == {<<"b">>, <<"a">>, <<"e", "b">>}

Overwrites == {"True", "False", None}

\* The paths that can exist
Paths == {<<"d", "a">>, <<"d", "b">>, <<"e", "b">>}

\* Results of a delete or rename request
RequestResults == {"Success", "Failure"}

\* RenameFile.__init__: the default values of the parameters; the fields
\* below parameter_output_values are the locals and the position of process
RenameFile ==
    [ parameter_values |->
          [old_path |-> <<>>, new_path |-> <<>>, overwrite |-> "False",
           old_path_output |-> <<>>, new_path_output |-> <<>>],
      parameter_output_values |-> <<>>,
      was_successful |-> None,
      pc |-> "idle",
      old_path |-> <<>>,
      new_path |-> <<>>,
      overwrite |-> FALSE,
      old_path_exists |-> FALSE,
      new_path_exists |-> FALSE ]

\* RenameFile._resolve_new_path
_resolve_new_path(old_path, new_path) ==
    LET is_just_filename == Len(new_path) <= 1
    IN  IF is_just_filename
        THEN SubSeq(old_path, 1, Len(old_path) - 1) \o new_path
        ELSE new_path

\* FileOperationBaseNode._clear_execution_status
_clear_execution_status(self) == [self EXCEPT !.was_successful = None]

\* FileOperationBaseNode._set_status_results
_set_status_results(self, was_successful) ==
    [self EXCEPT !.was_successful = IF was_successful THEN "True" ELSE "False"]

\* FileOperationBaseNode._check_path_exists(path).exists
_check_path_exists(files, path) == path \in files

\* A failure case of process: both outputs are set to "", the status is
\* set, process returns
Failure(self) ==
    _set_status_results(
        [self EXCEPT !.parameter_values.old_path_output = <<>>,
                     !.parameter_values.new_path_output = <<>>,
                     !.pc = "idle"],
        FALSE)

\* process up to the check of old_path
RenameFile_process(self) ==
    LET cleared == _clear_execution_status(self)
        old_path == cleared.parameter_values.old_path
        new_path_input == cleared.parameter_values.new_path
        overwrite == cleared.parameter_values.overwrite = "True"
    IN  [cleared EXCEPT !.old_path = old_path,
                        !.new_path = _resolve_new_path(old_path, new_path_input),
                        !.overwrite = overwrite,
                        !.old_path_exists = FALSE,
                        !.new_path_exists = FALSE,
                        !.pc = "old_path_result"]

\* process from the answer on old_path to the check of new_path
RenameFile_old_path_result(self, exists) ==
    LET s == [self EXCEPT !.old_path_exists = exists]
    IN  IF ~exists THEN Failure(s) ELSE [s EXCEPT !.pc = "new_path_result"]

\* process from the answer on new_path on, deleting an existing new path
\* whatever overwrite is
RenameFile_new_path_result_always_deleting(self, exists) ==
    LET s == [self EXCEPT !.new_path_exists = exists]
    IN  IF exists THEN [s EXCEPT !.pc = "delete_result"]
        ELSE [s EXCEPT !.pc = "rename_result"]

\* process from the answer on new_path to the delete or rename request
RenameFile_new_path_result(self, exists) ==
    LET s == [self EXCEPT !.new_path_exists = exists]
    IN  IF exists /\ ~s.overwrite THEN Failure(s)
        ELSE IF exists /\ s.overwrite THEN [s EXCEPT !.pc = "delete_result"]
        ELSE [s EXCEPT !.pc = "rename_result"]

\* process from the result of the delete request to the rename request
RenameFile_delete_result(self, delete_result) ==
    IF delete_result = "Failure" THEN Failure(self)
    ELSE [self EXCEPT !.pc = "rename_result"]

\* process from the result of the rename request to its end
RenameFile_rename_result(self, rename_result) ==
    IF rename_result = "Failure" THEN Failure(self)
    ELSE _set_status_results(
             [self EXCEPT
                 !.parameter_values.old_path_output = self.old_path,
                 !.parameter_values.new_path_output = self.new_path,
                 !.parameter_output_values =
                     DictSet(DictSet(@, "old_path_output", self.old_path),
                             "new_path_output", self.new_path),
                 !.pc = "idle"],
             TRUE)

-----------------------------------------------------------------------------
(* The host engine: it changes the connection graph and then calls the     *)
(* callback of the node.  Only the connections of the three data ports are *)
(* kept in the graph; the callbacks for the other parameters are calls     *)
(* with no graph to keep.                                                  *)

DataInputs == {"output_if_true", "output_if_false"}

ProducersOf(graph, port) == {c[2] : c \in {d \in graph : d[1] = port}}

CanConnectIn(graph, port, producer) ==
    port \in DataInputs =>
        /\ <<port, producer>> \notin graph
        /\ Cardinality(ProducersOf(graph, port)) < MaxProducersPerPort

ConnectIn(graph, port, producer) ==
    IF port \in DataInputs THEN graph \cup {<<port, producer>>} ELSE graph

CanDisconnectIn(graph, port, producer) ==
    port \in DataInputs => <<port, producer>> \in graph

DisconnectIn(graph, port, producer) == graph \ {<<port, producer>>}

CanConnectOut(graph, port, consumer) ==
    port = "output" => consumer \notin graph

ConnectOut(graph, port, consumer) ==
    IF port = "output" THEN graph \cup {consumer} ELSE graph

CanDisconnectOut(graph, port, consumer) ==
    port = "output" => consumer \in graph

DisconnectOut(graph, port, consumer) ==
    IF port = "output" THEN graph \ {consumer} ELSE graph

Call(op, param, peer_param) == [op |-> op, param |-> param, arg |-> peer_param]

NoCall == [op |-> "__init__", param |-> "", arg |-> [type |-> ""]]

Init ==
    /\ node = IfElse
    /\ incoming = {}
    /\ outgoing = {}
    /\ last = NoCall
    /\ peer = IfElse
    /\ peer_incoming = {}
    /\ peer_outgoing = {}
    /\ run = IfElseRun
    /\ ret = NoEvaluationCall
    /\ create_variable = CreateVariable
    /\ variable_incoming = {}
    /\ variable_last = NoVariableCall
    /\ rename_file = RenameFile
    /\ file_system = {}
    /\ requests = <<>>

AfterIncomingConnectionOf(target, source) ==
    /\ CanConnectIn(incoming, target, source)
    /\ incoming' = ConnectIn(incoming, target, source)
    /\ node' = after_incoming_connection(node, source, target)
    /\ last' = Call("after_incoming_connection", target, source)
    /\ UNCHANGED <<outgoing, peer, peer_incoming, peer_outgoing, run, ret, variable_vars, rename_vars>>

AfterIncomingConnectionRemovedOf(target, source) ==
    /\ CanDisconnectIn(incoming, target, source)
    /\ incoming' = DisconnectIn(incoming, target, source)
    /\ node' = after_incoming_connection_removed(node, source, target)
    /\ last' = Call("after_incoming_connection_removed", target, source)
    /\ UNCHANGED <<outgoing, peer, peer_incoming, peer_outgoing, run, ret, variable_vars, rename_vars>>

AfterOutgoingConnectionOf(source, target) ==
    /\ CanConnectOut(outgoing, source, target)
    /\ outgoing' = ConnectOut(outgoing, source, target)
    /\ node' = after_outgoing_connection(node, source, target)
    /\ last' = Call("after_outgoing_connection", source, target)
    /\ UNCHANGED <<incoming, peer, peer_incoming, peer_outgoing, run, ret, variable_vars, rename_vars>>

AfterOutgoingConnectionRemovedOf(source, target) ==
    /\ CanDisconnectOut(outgoing, source, target)
    /\ outgoing' = DisconnectOut(outgoing, source, target)
    /\ node' = after_outgoing_connection_removed(node, source, target)
    /\ last' = Call("after_outgoing_connection_removed", source, target)
    /\ UNCHANGED <<incoming, peer, peer_incoming, peer_outgoing, run, ret, variable_vars, rename_vars>>

AfterIncomingConnection ==
    \E target \in TargetNames, source \in Producers :
        AfterIncomingConnectionOf(target, source)

AfterIncomingConnectionRemoved ==
    \E target \in TargetNames, source \in Producers :
        AfterIncomingConnectionRemovedOf(target, source)

AfterOutgoingConnection ==
    \E source \in SourceNames, target \in Consumers :
        AfterOutgoingConnectionOf(source, target)

AfterOutgoingConnectionRemoved ==
    \E source \in SourceNames, target \in Consumers :
        AfterOutgoingConnectionRemovedOf(source, target)

Next ==
    \/ AfterIncomingConnection
    \/ AfterIncomingConnectionRemoved
    \/ AfterOutgoingConnection
    \/ AfterOutgoingConnectionRemoved

Spec == Init /\ [][Next]_vars

-----------------------------------------------------------------------------
(* Two instances under two callback histories: node and peer are driven    *)
(* independently, each by its own host graph, so that what two histories   *)
(* leave behind can be compared.  Here the host keeps every data port to   *)
(* one connection at a time: a port is connected only while it is free.    *)

InputFree(graph, port) == ProducersOf(graph, port) = {}

OutputFree(graph) == graph = {}

PairAfterIncomingConnection ==
    \E target \in DataInputs, source \in Producers :
        /\ InputFree(incoming, target)
        /\ AfterIncomingConnectionOf(target, source)

PairAfterIncomingConnectionRemoved ==
    \E target \in DataInputs, source \in Producers :
        AfterIncomingConnectionRemovedOf(target, source)

PairAfterOutgoingConnection ==
    \E target \in Consumers :
        /\ OutputFree(outgoing)
        /\ AfterOutgoingConnectionOf("output", target)

PairAfterOutgoingConnectionRemoved ==
    \E target \in Consumers :
        AfterOutgoingConnectionRemovedOf("output", target)

PeerAfterIncomingConnection ==
    \E target \in DataInputs, source \in Producers :
        /\ InputFree(peer_incoming, target)
        /\ peer_incoming' = ConnectIn(peer_incoming, target, source)
        /\ peer' = after_incoming_connection(peer, source, target)
        /\ UNCHANGED <<node, incoming, outgoing, last, peer_outgoing, run, ret, variable_vars, rename_vars>>

PeerAfterIncomingConnectionRemoved ==
    \E target \in DataInputs, source \in Producers :
        /\ CanDisconnectIn(peer_incoming, target, source)
        /\ peer_incoming' = DisconnectIn(peer_incoming, target, source)
        /\ peer' = after_incoming_connection_removed(peer, source, target)
        /\ UNCHANGED <<node, incoming, outgoing, last, peer_outgoing, run, ret, variable_vars, rename_vars>>

PeerAfterOutgoingConnection ==
    \E target \in Consumers :
        /\ OutputFree(peer_outgoing)
        /\ peer_outgoing' = ConnectOut(peer_outgoing, "output", target)
        /\ peer' = after_outgoing_connection(peer, "output", target)
        /\ UNCHANGED <<node, incoming, outgoing, last, peer_incoming, run, ret, variable_vars, rename_vars>>

PeerAfterOutgoingConnectionRemoved ==
    \E target \in Consumers :
        /\ CanDisconnectOut(peer_outgoing, "output", target)
        /\ peer_outgoing' = DisconnectOut(peer_outgoing, "output", target)
        /\ peer' = after_outgoing_connection_removed(peer, "output", target)
        /\ UNCHANGED <<node, incoming, outgoing, last, peer_incoming, run, ret, variable_vars, rename_vars>>

NextPair ==
    \/ PairAfterIncomingConnection
    \/ PairAfterIncomingConnectionRemoved
    \/ PairAfterOutgoingConnection
    \/ PairAfterOutgoingConnectionRemoved
    \/ PeerAfterIncomingConnection
    \/ PeerAfterIncomingConnectionRemoved
    \/ PeerAfterOutgoingConnection
    \/ PeerAfterOutgoingConnectionRemoved

SpecPair == Init /\ [][NextPair]_vars

-----------------------------------------------------------------------------
(* The host engine evaluating the node: it gives the parameters their      *)
(* values and calls the evaluation methods, in any order.  The connections *)
(* stay as they are meanwhile.                                             *)

\* How a returned bool is recorded
Repr(bool) == IF bool THEN "True" ELSE "False"

\* The record of an evaluation call and its outcome
Returned(op, outcome) ==
    [op |-> op, raised |-> outcome.raised,
     value |-> IF outcome.raised # "" THEN None ELSE outcome.value]

\* The object after a call: unchanged when the call raised
After(self, outcome) == IF outcome.raised # "" THEN self ELSE outcome.self

connection_vars == <<node, incoming, outgoing, last, peer, peer_incoming, peer_outgoing>>

graph_vars == <<incoming, outgoing, last, peer, peer_incoming, peer_outgoing>>

\* The one Python object: node holds its negotiation fields and port types,
\* run its evaluation fields
Object(negotiation, evaluation) ==
    [ output_if_true     |-> negotiation.output_if_true,
      output_if_false    |-> negotiation.output_if_false,
      output             |-> negotiation.output,
      _possibility_space |-> negotiation._possibility_space,
      _locked_type       |-> negotiation._locked_type,
      _connected_inputs  |-> negotiation._connected_inputs,
      _output_connected  |-> negotiation._output_connected,
      parameter_values        |-> evaluation.parameter_values,
      parameter_output_values |-> evaluation.parameter_output_values,
      stop_flow               |-> evaluation.stop_flow,
      current_spotlight_parameter |-> evaluation.current_spotlight_parameter,
      next |-> evaluation.next,
      prev |-> evaluation.prev ]

NegotiationPart(self) ==
    [ output_if_true     |-> self.output_if_true,
      output_if_false    |-> self.output_if_false,
      output             |-> self.output,
      _possibility_space |-> self._possibility_space,
      _locked_type       |-> self._locked_type,
      _connected_inputs  |-> self._connected_inputs,
      _output_connected  |-> self._output_connected ]

EvaluationPart(self) ==
    [ parameter_values        |-> self.parameter_values,
      parameter_output_values |-> self.parameter_output_values,
      stop_flow               |-> self.stop_flow,
      current_spotlight_parameter |-> self.current_spotlight_parameter,
      next |-> self.next,
      prev |-> self.prev ]

\* The host calling an evaluation method whose outcome on the object is
\* outcome and whose recorded return is returned
Evaluate(self, outcome, returned) ==
    /\ node' = NegotiationPart(After(self, outcome))
    /\ run' = EvaluationPart(After(self, outcome))
    /\ ret' = returned
    /\ UNCHANGED <<graph_vars, variable_vars, rename_vars>>

SetParameterValue ==
    \/ \E value \in ConditionValues :
           /\ run' = [run EXCEPT !.parameter_values.evaluate = value]
           /\ ret' = [op |-> "set_parameter_value", raised |-> "", value |-> None]
           /\ UNCHANGED <<connection_vars, variable_vars, rename_vars>>
    \/ \E name \in DataInputs, value \in DataValues :
           /\ run' = [run EXCEPT !.parameter_values[name] = value]
           /\ ret' = [op |-> "set_parameter_value", raised |-> "", value |-> None]
           /\ UNCHANGED <<connection_vars, variable_vars, rename_vars>>

Process ==
    LET self == Object(node, run)
    IN  Evaluate(self, process(self), Returned("process", process(self)))

GetNextControlOutput ==
    LET self == Object(node, run)
    IN  Evaluate(self, get_next_control_output(self),
                 Returned("get_next_control_output", get_next_control_output(self)))

InitializeSpotlight ==
    LET self == Object(node, run)
    IN  Evaluate(self, initialize_spotlight(self),
                 Returned("initialize_spotlight", initialize_spotlight(self)))

AdvanceParameter ==
    LET self == Object(node, run)
    IN  Evaluate(self, advance_parameter(self),
                 Returned("advance_parameter",
                          [advance_parameter(self) EXCEPT !.value = Repr(@)]))

NextEval ==
    \/ SetParameterValue
    \/ Process
    \/ GetNextControlOutput
    \/ InitializeSpotlight
    \/ AdvanceParameter

SpecEval == Init /\ [][NextEval]_vars

-----------------------------------------------------------------------------------------------------------------------------------------------------
(* One node that the host both connects and evaluates, in any order.  Here *)
(* each data port is kept to one connection at a time, the producers are a *)
(* string and an int producer, there is one consumer, and the condition is *)
(* given a true, a false and an unsupported value.                         *)

FewProducers == {p \in Producers : SourceType(p) \in {"string", "int"}}

FewConsumers == {c \in Consumers : c.input_types # <<>>}

FewConditionValues == {IntValue(1), OtherValue("list")}

NodeAfterIncomingConnection ==
    \E target \in DataInputs, source \in FewProducers :
        /\ InputFree(incoming, target)
        /\ AfterIncomingConnectionOf(target, source)

NodeAfterIncomingConnectionRemoved ==
    \E target \in DataInputs, source \in FewProducers :
        AfterIncomingConnectionRemovedOf(target, source)

NodeAfterOutgoingConnection ==
    \E target \in FewConsumers :
        /\ OutputFree(outgoing)
        /\ AfterOutgoingConnectionOf("output", target)

NodeAfterOutgoingConnectionRemoved ==
    \E target \in FewConsumers :
        AfterOutgoingConnectionRemovedOf("output", target)

SetCondition ==
    \E value \in FewConditionValues :
        /\ run' = [run EXCEPT !.parameter_values.evaluate = value]
        /\ ret' = [op |-> "set_parameter_value", raised |-> "", value |-> None]
        /\ UNCHANGED <<connection_vars, variable_vars, rename_vars>>

NextNode ==
    \/ NodeAfterIncomingConnection
    \/ NodeAfterIncomingConnectionRemoved
    \/ NodeAfterOutgoingConnection
    \/ NodeAfterOutgoingConnectionRemoved
    \/ SetCondition
    \/ Process
    \/ GetNextControlOutput
    \/ InitializeSpotlight
    \/ AdvanceParameter

SpecNode == Init /\ [][NextNode]_vars

-----------------------------------------------------------------------------
(* The host engine connecting the CreateVariable node *)

\* The most recent callback on the value parameter, after a callback op on
\* param
RecentOnValue(op, param) ==
    IF param # "value" THEN variable_last.recent_on_value
    ELSE IF op = "after_incoming_connection" THEN "add" ELSE "remove"

VariableAfterIncomingConnection ==
    \E target \in VariableTargetNames, source \in VariableProducers, engine \in EngineAnswers :
        LET outcome == CreateVariable_after_incoming_connection(
                           create_variable, variable_incoming \cup {<<target, source>>},
                           source, target, engine)
        IN  /\ <<target, source>> \notin variable_incoming
            /\ create_variable' = outcome.self
            /\ variable_incoming' = outcome.connections
            /\ variable_last' = [op |-> "after_incoming_connection", param |-> target,
                                 raised |-> outcome.raised,
                                 recent_on_value |->
                                     RecentOnValue("after_incoming_connection", target)]
            /\ UNCHANGED <<if_else_vars, rename_vars>>

VariableAfterIncomingConnectionRemoved ==
    \E connection \in variable_incoming :
        LET outcome == CreateVariable_after_incoming_connection_removed(
                           create_variable, connection[1])
        IN  /\ create_variable' = outcome.self
            /\ variable_incoming' = variable_incoming \ {connection}
            /\ variable_last' = [op |-> "after_incoming_connection_removed",
                                 param |-> connection[1], raised |-> outcome.raised,
                                 recent_on_value |->
                                     RecentOnValue("after_incoming_connection_removed",
                                                   connection[1])]
            /\ UNCHANGED <<if_else_vars, rename_vars>>

NextVariable ==
    \/ VariableAfterIncomingConnection
    \/ VariableAfterIncomingConnectionRemoved

SpecVariable == Init /\ [][NextVariable]_vars

-----------------------------------------------------------------------------
(* The host running a RenameFile node, the engine answering its requests,  *)
(* and other programs changing the file system meanwhile.                  *)

\* The record of a request and its result
Request(request, path, result) == [request |-> request, path |-> path, result |-> result]

RenameSetParameterValues ==
    /\ rename_file.pc = "idle"
    /\ \E old_path \in OldPaths, new_path \in NewPaths, overwrite \in Overwrites :
           rename_file' = [rename_file EXCEPT !.parameter_values.old_path = old_path,
                                              !.parameter_values.new_path = new_path,
                                              !.parameter_values.overwrite = overwrite]
    /\ UNCHANGED <<file_system, requests, if_else_vars, variable_vars>>

RenameProcess ==
    /\ rename_file.pc = "idle"
    /\ rename_file.parameter_values.old_path # <<>>
    /\ rename_file.parameter_values.new_path # <<>>
    /\ rename_file' = RenameFile_process(rename_file)
    /\ requests' = <<>>
    /\ UNCHANGED <<file_system, if_else_vars, variable_vars>>

RenameOldPathResult ==
    /\ rename_file.pc = "old_path_result"
    /\ rename_file' = RenameFile_old_path_result(
                          rename_file, _check_path_exists(file_system, rename_file.old_path))
    /\ UNCHANGED <<file_system, requests, if_else_vars, variable_vars>>

RenameNewPathResult ==
    /\ rename_file.pc = "new_path_result"
    /\ rename_file' = RenameFile_new_path_result(
                          rename_file, _check_path_exists(file_system, rename_file.new_path))
    /\ UNCHANGED <<file_system, requests, if_else_vars, variable_vars>>

RenameDeleteResult ==
    /\ rename_file.pc = "delete_result"
    /\ \E result \in RequestResults :
           /\ result = "Success" => rename_file.new_path \in file_system
           /\ file_system' = IF result = "Success"
                             THEN file_system \ {rename_file.new_path}
                             ELSE file_system
           /\ requests' = Append(requests, Request("delete", rename_file.new_path, result))
           /\ rename_file' = RenameFile_delete_result(rename_file, result)
    /\ UNCHANGED <<if_else_vars, variable_vars>>

RenameRenameResult ==
    /\ rename_file.pc = "rename_result"
    /\ \E result \in RequestResults :
           /\ result = "Success" => rename_file.old_path \in file_system
           /\ file_system' = IF result = "Success"
                             THEN (file_system \ {rename_file.old_path})
                                      \cup {rename_file.new_path}
                             ELSE file_system
           /\ requests' = Append(requests, Request("rename", rename_file.old_path, result))
           /\ rename_file' = RenameFile_rename_result(rename_file, result)
    /\ UNCHANGED <<if_else_vars, variable_vars>>

FileSystemChanges ==
    /\ \E path \in Paths :
           file_system' = IF path \in file_system
                          THEN file_system \ {path}
                          ELSE file_system \cup {path}
    /\ UNCHANGED <<rename_file, requests, if_else_vars, variable_vars>>

NextRename ==
    \/ RenameSetParameterValues
    \/ RenameProcess
    \/ RenameOldPathResult
    \/ RenameNewPathResult
    \/ RenameDeleteResult
    \/ RenameRenameResult
    \/ FileSystemChanges

SpecRename == Init /\ [][NextRename]_vars

-----------------------------------------------------------------------------
(* Vocabulary of the properties *)

\* _locked_type is set
Locked(n) == n._locked_type # None

\* The compatibility group of a type tag: an image, audio or video artifact
\* and its URL form are interchangeable; any other tag stands alone
CompatGroup(t) ==
    IF t \in {"ImageArtifact", "ImageUrlArtifact"} THEN {"ImageArtifact", "ImageUrlArtifact"}
    ELSE IF t \in {"AudioArtifact", "AudioUrlArtifact"} THEN {"AudioArtifact", "AudioUrlArtifact"}
    ELSE IF t \in {"VideoArtifact", "VideoUrlArtifact"} THEN {"VideoArtifact", "VideoUrlArtifact"}
    ELSE {t}

\* The advertised types of the three data ports
PortTypes(n) == <<n.output_if_true, n.output_if_false, n.output>>

\* The types a consumer declares to accept
Accepts(consumer) ==
    IF consumer.input_types = <<>> THEN {consumer.type} ELSE Elems(consumer.input_types)

\* The last callback was op on one of the negotiated ports
LastOn(op, ports) == last.op = op /\ last.param \in ports

SameGraph == incoming = peer_incoming /\ outgoing = peer_outgoing

-----------------------------------------------------------------------------
(* C1 *)

\* C1: after any sequence of connection callbacks, _locked_type is set if and
\* only if _connected_inputs is non-empty.
C1_LockedIffConnected ==
    Locked(node) <=> node._connected_inputs # {}

-----------------------------------------------------------------------------
(* C2 *)

\* C2 as stated: at most one of {_locked_type set, _possibility_space
\* non-empty} holds, and _possibility_space is non-empty only when
\* _output_connected is true and _locked_type is empty.
C2_AtMostOneOfLockAndSpace ==
    /\ ~(Locked(node) /\ node._possibility_space # <<>>)
    /\ node._possibility_space # <<>> =>
           node._output_connected /\ ~Locked(node)

\* C2 as amended: _possibility_space is non-empty only when _output_connected
\* is true; it may be non-empty while _locked_type is set, and then the lock
\* has priority: every data port carries the locked type, not the "any"/ALL
\* markers of POSSIBILITY mode.
C2_LockHasPriorityOverSpace ==
    /\ node._possibility_space # <<>> => node._output_connected
    /\ Locked(node) =>
           /\ node.output_if_true.type = node._locked_type
           /\ node.output_if_false.type = node._locked_type
           /\ node.output.type = node._locked_type
           /\ node.output.output_type = node._locked_type

\* A locked node whose output is connected to a consumer accepting more than
\* the locked type.
C2_Witness ==
    /\ node._locked_type = "string"
    /\ node._possibility_space = <<"string", "int">>
    /\ node._output_connected

-----------------------------------------------------------------------------
(* C3 (SpecPair) *)

\* C3 as stated: two callback sequences that leave the same set of
\* connections leave the same _locked_type, _possibility_space,
\* _connected_inputs, _output_connected and advertised port types.
C3_StateIsFunctionOfGraph ==
    SameGraph => node = peer

\* C3 as amended: of two callback sequences that leave the same set of
\* connections, both have _locked_type and _connected_inputs empty when no
\* input connection is left, both have _possibility_space empty and
\* _output_connected false when no outgoing connection is left, and they
\* advertise the same port types whenever they agree on _locked_type and
\* _possibility_space.  With an input connection left, _locked_type depends
\* on the order of the callbacks.
C3_GraphDeterminedPart ==
    SameGraph =>
        /\ incoming = {} =>
               /\ node._locked_type = None /\ peer._locked_type = None
               /\ node._connected_inputs = {} /\ peer._connected_inputs = {}
        /\ outgoing = {} =>
               /\ node._possibility_space = <<>> /\ peer._possibility_space = <<>>
               /\ ~node._output_connected /\ ~peer._output_connected
        /\ (/\ node._locked_type = peer._locked_type
            /\ node._possibility_space = peer._possibility_space) =>
               PortTypes(node) = PortTypes(peer)

\* Two histories that ended in the same connections, an input and the output
\* among them, and that no longer agree on the lock; node's history ended
\* with a removal, so that it is not the shortest way to this graph.
C3_Witness ==
    /\ SameGraph
    /\ incoming # {}
    /\ outgoing # {}
    /\ node._locked_type # peer._locked_type
    /\ last.op = "after_incoming_connection_removed"

-----------------------------------------------------------------------------
(* C4 *)

\* C4: once every connection has been removed, in whatever order, the node
\* has the port types and the negotiation state of a fresh node.
C4_AllRemovedIsFresh ==
    (incoming = {} /\ outgoing = {}) => node = IfElse

\* The last connection has just been removed from the output.
C4_Witness ==
    /\ incoming = {}
    /\ outgoing = {}
    /\ LastOn("after_outgoing_connection_removed", {"output"})

-----------------------------------------------------------------------------
(* C5 *)

\* C5: an outgoing connection made on the output of a locked node leaves
\* _locked_type and the advertised types of the three data ports unchanged.
C5_LockWins ==
    [][ ( /\ Locked(node)
          /\ last'.op = "after_outgoing_connection"
          /\ last'.param = "output" ) =>
        ( /\ node'._locked_type = node._locked_type
          /\ PortTypes(node') = PortTypes(node) ) ]_vars

\* The output of a node locked to "string" by its input has just been
\* connected to the consumer accepting "string" and "int".
C5_Witness ==
    /\ LastOn("after_outgoing_connection", {"output"})
    /\ Len(last.arg.input_types) > 1
    /\ node._locked_type = "string"
    /\ node._connected_inputs # {}
    /\ node.output_if_true.input_types = <<"string">>

-----------------------------------------------------------------------------
(* C6 *)

\* C6: the removal of an incoming connection that leaves another input
\* connected leaves _locked_type and the port types unchanged; the removal
\* that leaves no input connected clears _locked_type.
C6_UnlockOnLastInputOnly ==
    [][ ( /\ last'.op = "after_incoming_connection_removed"
          /\ last'.param \in DataInputs ) =>
        IF node._connected_inputs \ {last'.param} # {}
        THEN /\ node'._locked_type = node._locked_type
             /\ PortTypes(node') = PortTypes(node)
        ELSE node'._locked_type = None ]_vars

\* Both inputs were connected to the two compatible image producers, and
\* output_if_true, whose connection took the lock, has just been disconnected.
C6_Witness ==
    /\ LastOn("after_incoming_connection_removed", {"output_if_true"})
    /\ last.arg.type = "ImageArtifact"
    /\ node._connected_inputs = {"output_if_false"}
    /\ node._locked_type = "ImageArtifact"
    /\ ProducersOf(incoming, "output_if_false") =
           {[output_type |-> "ImageUrlArtifact", type |-> "ImageUrlArtifact"]}

-----------------------------------------------------------------------------
(* C7 *)

\* C7: an incoming connection on output_if_true or output_if_false whose
\* producer type _can_accept_input_type rejects has a defined outcome: the
\* target port is added to _connected_inputs and nothing else of the node
\* changes (_locked_type and every advertised port type stay as they were).
C7_RejectedIsTrackedOnly ==
    [][ ( /\ last'.op = "after_incoming_connection"
          /\ last'.param \in DataInputs
          /\ ~_can_accept_input_type(node, SourceType(last'.arg)) ) =>
        node' = [node EXCEPT !._connected_inputs = @ \cup {last'.param}] ]_vars

\* An "int" producer has just been connected to output_if_false of a node
\* that output_if_true had locked to "string".
C7_Witness ==
    /\ LastOn("after_incoming_connection", {"output_if_false"})
    /\ SourceType(last.arg) = "int"
    /\ node._locked_type = "string"
    /\ node._connected_inputs = {"output_if_true", "output_if_false"}
    /\ node.output.output_type = "string"

-----------------------------------------------------------------------------
(* C8 *)

\* C8: in every reachable state, _can_accept_input_type(T) is: with
\* _locked_type set, whether T is in the compatibility group of _locked_type;
\* otherwise, with _possibility_space non-empty, whether T is a member of
\* _possibility_space; otherwise true.
C8_CanAccept ==
    \A T \in TypeTags :
        _can_accept_input_type(node, T) <=>
            IF Locked(node) THEN T \in CompatGroup(node._locked_type)
            ELSE IF node._possibility_space # <<>> THEN T \in Elems(node._possibility_space)
            ELSE TRUE

\* A node locked to one form of the image artifact while its output is
\* connected: the group of the lock decides, not the possibility space.
C8_Witness ==
    /\ node._locked_type = "ImageUrlArtifact"
    /\ node._possibility_space = <<"string", "int">>
    /\ _can_accept_input_type(node, "ImageArtifact")
    /\ ~_can_accept_input_type(node, "string")

-----------------------------------------------------------------------------
(* C9 *)

\* C9: whenever _locked_type is set, both input ports accept exactly the
\* compatibility group of _locked_type and the output's output_type is
\* _locked_type.
C9_LockedPorts ==
    Locked(node) =>
        /\ Elems(node.output_if_true.input_types) = CompatGroup(node._locked_type)
        /\ Elems(node.output_if_false.input_types) = CompatGroup(node._locked_type)
        /\ node.output.output_type = node._locked_type

\* The lock has just been taken in POSSIBILITY mode: the output was
\* connected when the first input connection arrived.
C9_Witness ==
    /\ LastOn("after_incoming_connection", DataInputs)
    /\ node._connected_inputs = {last.param}
    /\ node._locked_type = SourceType(last.arg)
    /\ node._output_connected
    /\ node._possibility_space = <<"string", "int">>

-----------------------------------------------------------------------------
(* C10 *)

\* C10: after the output has gained an outgoing connection while no input is
\* connected, both input ports accept exactly the types the consumer declares
\* to accept and the output port is still the ALL marker.
C10_PossibilityPorts ==
    ( /\ LastOn("after_outgoing_connection", {"output"})
      /\ node._connected_inputs = {} ) =>
        /\ Elems(node.output_if_true.input_types) = Accepts(last.arg)
        /\ Elems(node.output_if_false.input_types) = Accepts(last.arg)
        /\ node.output.output_type = ALL
        /\ node.output.type = ALL

\* The output of a node without input connections has just been connected to
\* the consumer accepting "string" and "int".
C10_Witness ==
    /\ LastOn("after_outgoing_connection", {"output"})
    /\ incoming = {}
    /\ node._connected_inputs = {}
    /\ Accepts(last.arg) = {"string", "int"}
    /\ node.output_if_true.input_types = <<"string", "int">>

-----------------------------------------------------------------------------
(* C11 *)

\* The port types of POSSIBILITY mode for the space recorded in n
PossibilityPorts(n) ==
    << [input_types |-> n._possibility_space, type |-> "any"],
       [input_types |-> n._possibility_space, type |-> "any"],
       [output_type |-> ALL, type |-> ALL] >>

\* The port types of DEFAULT mode
DefaultPorts == PortTypes(IfElse)

\* C11: when the last connected input of a locked node is disconnected, the
\* node is in POSSIBILITY mode if the output is still connected (both inputs
\* accept the possibility space recorded from the outgoing connection, the
\* output is ALL) and in DEFAULT mode otherwise.
C11_UnlockReturnsToOutputMode ==
    [][ ( /\ Locked(node)
          /\ last'.op = "after_incoming_connection_removed"
          /\ last'.param \in DataInputs
          /\ node'._connected_inputs = {} ) =>
        ( /\ ~Locked(node')
          /\ IF outgoing # {}
             THEN /\ node'._possibility_space # <<>>
                  /\ \E c \in outgoing : Elems(node'._possibility_space) = Accepts(c)
                  /\ PortTypes(node') = PossibilityPorts(node')
             ELSE PortTypes(node') = DefaultPorts ) ]_vars

-----------------------------------------------------------------------------
(* C12 *)

\* The end of the scenario: the output is connected to the one consumer that
\* accepts "string" only, and the "string" producer has just been
\* disconnected from output_if_true, the only input that was connected.
C12_Scenario ==
    /\ LastOn("after_incoming_connection_removed", {"output_if_true"})
    /\ SourceType(last.arg) = "string"
    /\ incoming = {}
    /\ outgoing = {[input_types |-> <<>>, type |-> "string"]}
    /\ node._output_connected

\* C12 as stated: at the end of the scenario the lock is empty, both inputs
\* accept {"string", "int"} and the output is the ALL marker.
C12_ScenarioEndsWithStringInt ==
    C12_Scenario =>
        /\ ~Locked(node)
        /\ Elems(node.output_if_true.input_types) = {"string", "int"}
        /\ Elems(node.output_if_false.input_types) = {"string", "int"}
        /\ node.output.output_type = ALL

\* C12 as amended: at the end of the scenario the lock is empty, both inputs
\* accept {"string"}, the accepted types of the consumer the output was
\* connected to, and the output is the ALL marker.
C12_ScenarioEndsWithString ==
    C12_Scenario =>
        /\ ~Locked(node)
        /\ node.output_if_true = [input_types |-> <<"string">>, type |-> "any"]
        /\ node.output_if_false = [input_types |-> <<"string">>, type |-> "any"]
        /\ node.output = [output_type |-> ALL, type |-> ALL]

\* The end of the scenario, reached.
C12_Witness ==
    /\ C12_Scenario
    /\ node._possibility_space = <<"string">>
    /\ node._connected_inputs = {}

-----------------------------------------------------------------------------
(* C13 *)

\* C13: _output_connected is true exactly when the output has an outgoing
\* connection, and _possibility_space is the accepted types of a consumer
\* the output is connected to (empty when there is none).
C13_OutputTracksGraph ==
    /\ node._output_connected <=> outgoing # {}
    /\ IF outgoing = {}
       THEN node._possibility_space = <<>>
       ELSE \E c \in outgoing : Elems(node._possibility_space) = Accepts(c)

-----------------------------------------------------------------------------
(* C14 *)

\* C14: after_outgoing_connection_removed on the output clears
\* _possibility_space and _output_connected; afterwards the port types are
\* the DEFAULT ones if no input is connected and otherwise the ones the
\* ports had before the callback.
C14_OutputRemoved ==
    [][ ( /\ last'.op = "after_outgoing_connection_removed"
          /\ last'.param = "output" ) =>
        ( /\ node'._possibility_space = <<>>
          /\ ~node'._output_connected
          /\ IF node._connected_inputs = {}
             THEN PortTypes(node') = DefaultPorts
             ELSE PortTypes(node') = PortTypes(node) ) ]_vars

-----------------------------------------------------------------------------
(* C15 *)

\* A node object whose fields hold values of their declared types
WellFormed(n) ==
    /\ DOMAIN n = DOMAIN IfElse
    /\ n._locked_type \in (TypeTags \cup {None})
    /\ n._connected_inputs \subseteq DataInputs
    /\ n._output_connected \in BOOLEAN
    /\ Elems(n._possibility_space) \subseteq TypeTags
    /\ \A p \in {n.output_if_true, n.output_if_false} :
           /\ p.input_types # <<>>
           /\ Elems(p.input_types) \subseteq TypeTags
           /\ p.type \in TypeTags
    /\ n.output.output_type \in (TypeTags \cup {ALL})
    /\ n.output.type \in (TypeTags \cup {ALL})

\* C15: in every reachable state each of the four callbacks, with any
\* parameter and any peer parameter (whether or not the graph holds that
\* connection), returns a node and raises nothing.
C15_CallbacksAreTotal ==
    /\ \A t \in TargetNames, p \in Producers :
           /\ WellFormed(after_incoming_connection(node, p, t))
           /\ WellFormed(after_incoming_connection_removed(node, p, t))
    /\ \A s \in SourceNames, c \in Consumers :
           /\ WellFormed(after_outgoing_connection(node, s, c))
           /\ WellFormed(after_outgoing_connection_removed(node, s, c))

\* output_if_true still has a producer but is no longer tracked (another of
\* its producers was disconnected) while output_if_false is tracked: the next
\* removal on output_if_true is for a port without a recorded connection, the
\* next connection to output_if_false is for a port already recorded.
C15_Witness ==
    /\ LastOn("after_incoming_connection_removed", {"output_if_true"})
    /\ ProducersOf(incoming, "output_if_true") # {}
    /\ node._connected_inputs = {"output_if_false"}

-----------------------------------------------------------------------------
(* C16 *)

\* C16: in every reachable state, _update_parameter_types called twice in a
\* row leaves the same port types as called once.
C16_UpdateIsIdempotent ==
    PortTypes(_update_parameter_types(_update_parameter_types(node)))
        = PortTypes(_update_parameter_types(node))

\* A node in POSSIBILITY mode, where the recomputation copies a list.
C16_Witness ==
    /\ ~Locked(node)
    /\ node._possibility_space = <<"string", "int">>
    /\ node.output_if_true.input_types = <<"string", "int">>

-----------------------------------------------------------------------------
(* Evaluation: C17 to C20 *)

\* The condition of n cannot be evaluated
Unevaluable(n) == check_evaluation(n).raised # ""

\* The data input the condition of n selects
SelectedBranch(n) ==
    IF check_evaluation(n).value THEN "output_if_true" ELSE "output_if_false"

\* The last evaluation call was op and it returned
LastReturned(op) == ret.op = op /\ ret.raised = ""

\* C17: after process has returned, the output value is the value of
\* output_if_true when the condition evaluates to true and the value of
\* output_if_false when it evaluates to false, unaltered.
C17_ProcessForwardsSelectedBranch ==
    LastReturned("process") =>
        /\ ~Unevaluable(run)
        /\ DOMAIN run.parameter_output_values = {"evaluate", "output"}
        /\ run.parameter_output_values["evaluate"] = check_evaluation(run).value
        /\ run.parameter_output_values["output"] = run.parameter_values[SelectedBranch(run)]

\* The branches hold different values, the condition is the string "yes",
\* and process has forwarded the value of output_if_true
C17_Witness ==
    /\ LastReturned("process")
    /\ run.parameter_values.evaluate = StrValue(<<"y", "e", "s">>)
    /\ run.parameter_values.output_if_true = "a"
    /\ run.parameter_values.output_if_false = "b"
    /\ run.parameter_output_values["output"] = "a"

\* C18: the spotlight moves onto a data input only in advance_parameter,
\* from "evaluate", and only onto the input the condition selects at that
\* call; so the input that is not selected never becomes the current
\* spotlight parameter, whatever links earlier traversals have left.
C18_OnlySelectedBranchGetsSpotlight ==
    [][ ( /\ run'.current_spotlight_parameter \in DataInputs
          /\ run'.current_spotlight_parameter # run.current_spotlight_parameter )
        => ( /\ ret'.op = "advance_parameter"
             /\ run.current_spotlight_parameter = "evaluate"
             /\ ~Unevaluable(run)
             /\ run'.current_spotlight_parameter = SelectedBranch(run) ) ]_vars

\* A second traversal selects output_if_false after an earlier one had
\* selected output_if_true and left its link behind
C18_Witness ==
    /\ ret.op = "advance_parameter"
    /\ ret.value = "True"
    /\ run.current_spotlight_parameter = "output_if_false"
    /\ run.prev["output_if_true"] = "evaluate"
    /\ ~Unevaluable(run)
    /\ SelectedBranch(run) = "output_if_false"

\* C19: while the condition cannot be evaluated, advance_parameter links
\* neither branch, sets the spotlight to None and returns False; process
\* writes no output value; and get_next_control_output sets stop_flow and
\* returns no control output, whatever the node did before.
C19_UnevaluableHalts ==
    [][ Unevaluable(run) =>
          /\ ret'.op = "advance_parameter" =>
                /\ run'.next = run.next
                /\ run'.prev = run.prev
                /\ run'.current_spotlight_parameter = None
                /\ ret'.value = "False"
          /\ ret'.op = "process" =>
                /\ ret'.raised # ""
                /\ run'.parameter_output_values = run.parameter_output_values
          /\ ret'.op = "get_next_control_output" =>
                /\ run'.stop_flow
                /\ ret'.value = None ]_vars

\* C20: check_evaluation, and so process, raises TypeError exactly when the
\* condition value is not a str, an int or a bool; it raises nothing else.
C20_TypeErrorIffNotBoolLike ==
    LET value == run.parameter_values.evaluate
        bool_like == value.kind \in {"str", "int", "bool"}
    IN  /\ check_evaluation(run).raised = (IF bool_like THEN "" ELSE "TypeError")
        /\ ret.op = "process" => ret.raised = (IF bool_like THEN "" ELSE "TypeError")

\* process has failed on a float condition
C20_Witness ==
    /\ ret.op = "process"
    /\ ret.raised = "TypeError"
    /\ run.parameter_values.evaluate = OtherValue("float")

-----------------------------------------------------------------------------
(* Frames, recomputation, the lock and the groups: C21 to C26 *)

\* C21: the negotiation fields and the port types of the node change only in
\* a connection callback: a step in which the host calls no callback, so a
\* call of process, get_next_control_output, initialize_spotlight or
\* advance_parameter (check_evaluation within them), returning or raising,
\* leaves them as they were.
C21_EvaluationKeepsNegotiation ==
    [][ (last' = last) => (node' = node) ]_vars

\* process has raised TypeError on a node that is locked and whose output
\* is connected
C21_Witness ==
    /\ ret.op = "process"
    /\ ret.raised = "TypeError"
    /\ Locked(node)
    /\ node._possibility_space # <<>>
    /\ run.stop_flow

\* C22: in every state the callbacks leave, the advertised types of the three
\* data ports are what _update_parameter_types computes from the current
\* _locked_type and _possibility_space.
C22_PortTypesAreCurrent ==
    PortTypes(node) = PortTypes(_update_parameter_types(node))

\* The output was connected while the node was locked, where
\* _set_possibility_space skips the recomputation
C22_Witness ==
    /\ LastOn("after_outgoing_connection", {"output"})
    /\ Locked(node)
    /\ node._possibility_space = <<"string", "int">>

\* C23: _locked_type is set only by an incoming connection on a data input,
\* to the type its producer produces; once set, every callback leaves it as
\* it is while _connected_inputs is not empty and clears it when
\* _connected_inputs becomes empty.
C23_FirstConnectionWins ==
    [][ /\ (~Locked(node) /\ Locked(node')) =>
              /\ last'.op = "after_incoming_connection"
              /\ last'.param \in DataInputs
              /\ node'._locked_type = SourceType(last'.arg)
        /\ Locked(node) =>
              node'._locked_type =
                  IF node'._connected_inputs = {} THEN None ELSE node._locked_type ]_vars

\* The node was locked by an ImageArtifact producer and a compatible
\* ImageUrlArtifact producer has been connected to the other input since
C23_Witness ==
    /\ LastOn("after_incoming_connection", DataInputs)
    /\ SourceType(last.arg) = "ImageUrlArtifact"
    /\ node._locked_type = "ImageArtifact"
    /\ node._connected_inputs = DataInputs

\* C24: while _locked_type is set, some connected input has a producer whose
\* type is in the compatibility group of _locked_type, and the output type
\* is one that some connected producer is compatible with.
C24_NoStaleLock ==
    Locked(node) =>
        /\ \E c \in incoming : SourceType(c[2]) \in CompatGroup(node._locked_type)
        /\ \E c \in incoming : node.output.output_type \in CompatGroup(SourceType(c[2]))

\* Type tags the compatibility relation is looked at on
AllTypeTags == TypeTags \cup DOMAIN _type_groups

\* u is in the compatible types of t
Compatible(t, u) == InList(u, _get_compatible_types(IfElse, t))

\* The relation is reflexive, symmetric and transitive
CompatibilityIsEquivalence ==
    /\ \A t \in AllTypeTags : Compatible(t, t)
    /\ \A t, u \in AllTypeTags : Compatible(t, u) <=> Compatible(u, t)
    /\ \A t, u, v \in AllTypeTags :
           Compatible(t, u) /\ Compatible(u, v) => Compatible(t, v)

\* C25: compatibility as _type_groups and _get_compatible_types define it is
\* an equivalence relation over the type tags, and a node locked by another
\* member of the group of its _locked_type accepts the same producer types.
C25_GroupsAreEquivalenceClasses ==
    /\ CompatibilityIsEquivalence
    /\ Locked(node) =>
           \A u \in AllTypeTags :
               Compatible(node._locked_type, u) =>
                   \A x \in AllTypeTags :
                       _can_accept_input_type([node EXCEPT !._locked_type = u], x)
                           = _can_accept_input_type(node, x)

\* A node locked by the URL member of the image group
C25_Witness ==
    /\ node._locked_type = "ImageUrlArtifact"
    /\ _can_accept_input_type(node, "ImageArtifact")
    /\ ~_can_accept_input_type(node, "string")

\* C26: a callback for a parameter that is not a negotiated port (an incoming
\* connection on another parameter than the two data inputs, an outgoing
\* connection on another parameter than output) leaves the negotiation
\* fields and the port types as they were.
C26_OtherParametersChangeNothing ==
    [][ ( \/ /\ last'.op \in {"after_incoming_connection", "after_incoming_connection_removed"}
             /\ last'.param \notin DataInputs
          \/ /\ last'.op \in {"after_outgoing_connection", "after_outgoing_connection_removed"}
             /\ last'.param # "output" )
        => node' = node ]_vars

\* The connection of Then was removed while the output is connected and the
\* node is locked
C26_Witness ==
    /\ last.op = "after_outgoing_connection_removed"
    /\ last.param = "Then"
    /\ node._output_connected
    /\ node._possibility_space # <<>>
    /\ Locked(node)

-----------------------------------------------------------------------------
(* Control flow and termination of the traversal: C27 and C28 *)

\* The control output that goes with a data input
ControlOf(branch) == IF branch = "output_if_true" THEN "Then" ELSE "Else"

\* C27: get_next_control_output called after process has returned gives Then
\* when the forwarded value is that of output_if_true and Else when it is
\* that of output_if_false; and when advance_parameter puts the spotlight on
\* a data input, process with the same condition value, whatever values the
\* data inputs have got by then, forwards the value of that input and is
\* followed by its control output.
C27_ControlFollowsData ==
    [][ /\ (LastReturned("process") /\ ret'.op = "get_next_control_output") =>
              /\ run.parameter_output_values["output"]
                     = run.parameter_values[SelectedBranch(run)]
              /\ ret'.value = ControlOf(SelectedBranch(run))
        /\ ( /\ ret'.op = "advance_parameter"
             /\ run'.current_spotlight_parameter \in DataInputs
             /\ run'.current_spotlight_parameter # run.current_spotlight_parameter ) =>
              \A value_if_true, value_if_false \in DataValues \cup {None} :
                  LET resolved == run'.current_spotlight_parameter
                      later == [run' EXCEPT
                                   !.parameter_values.output_if_true = value_if_true,
                                   !.parameter_values.output_if_false = value_if_false]
                      processed == process(later)
                  IN  /\ processed.raised = ""
                      /\ processed.self.parameter_output_values["output"]
                             = later.parameter_values[resolved]
                      /\ get_next_control_output(processed.self).value = ControlOf(resolved)
      ]_vars

\* The condition "No" resolved output_if_false, process forwarded its value
\* and the control output is Else
C27_Witness ==
    /\ ret.op = "get_next_control_output"
    /\ ret.value = "Else"
    /\ run.parameter_values.evaluate = StrValue(<<"N", "o">>)
    /\ run.parameter_values.output_if_true = "a"
    /\ run.parameter_values.output_if_false = "b"
    /\ run.parameter_output_values["output"] = "b"
    /\ run.next["evaluate"] = "output_if_false"

\* How many more times advance_parameter can return True from a spotlight
Rank(spotlight) ==
    IF spotlight = "evaluate" THEN 2 ELSE IF spotlight \in DataInputs THEN 1 ELSE 0

\* The parameter linked after spotlight
Follow(n, spotlight) == IF spotlight = None THEN None ELSE n.next[spotlight]

\* Following the next links from any parameter ends
LinksEnd(n) ==
    \A p \in SpotlightNames : Follow(n, Follow(n, Follow(n, p))) = None

\* C28: a call of advance_parameter with no spotlight returns False and
\* changes nothing; any other call moves the spotlight strictly down the
\* order evaluate, data input, None; it returns True exactly when the
\* spotlight is on a parameter afterwards, so at most once for the selected
\* branch before it returns False with the spotlight None; and the next
\* links, also those earlier traversals left, never form a cycle.
C28_TraversalTerminates ==
    [][ /\ ret'.op = "advance_parameter" =>
              /\ run.current_spotlight_parameter = None =>
                     ret'.value = "False" /\ run' = run
              /\ run.current_spotlight_parameter # None =>
                     Rank(run'.current_spotlight_parameter)
                         < Rank(run.current_spotlight_parameter)
              /\ ret'.value = "True" <=> run'.current_spotlight_parameter # None
        /\ LinksEnd(run')
      ]_vars

\* A traversal has ended after earlier traversals had linked both branches
C28_Witness ==
    /\ ret.op = "advance_parameter"
    /\ ret.value = "False"
    /\ run.current_spotlight_parameter = None
    /\ run.prev["output_if_true"] = "evaluate"
    /\ run.prev["output_if_false"] = "evaluate"

-----------------------------------------------------------------------------
(* CreateVariable and RenameFile: C29 and C30 *)

\* variable_type can be set and edited by hand
Editable(n) ==
    n.variable_type_param.settable /\ "INPUT" \in n.variable_type_param.allowed_modes

\* variable_type can neither be set nor edited by hand
Controlled(n) ==
    ~n.variable_type_param.settable /\ "INPUT" \notin n.variable_type_param.allowed_modes

\* C29: after every incoming-connection callback, variable_type is
\* non-settable and without INPUT mode when the most recent callback on the
\* value parameter was an add, and settable with INPUT mode otherwise; and a
\* callback on another parameter changes neither.
C29_TypeFollowsValueConnection ==
    [][ /\ IF variable_last'.recent_on_value = "add"
           THEN Controlled(create_variable')
           ELSE Editable(create_variable')
        /\ variable_last'.param # "value" =>
               create_variable'.variable_type_param = create_variable.variable_type_param
      ]_vars

\* The connection to value was removed after an add, while a connection to
\* variable_type made in between is still there
C29_Witness ==
    /\ variable_last.op = "after_incoming_connection_removed"
    /\ variable_last.param = "value"
    /\ Editable(create_variable)
    /\ create_variable.parameter_values.variable_type = "int"
    /\ \E c \in variable_incoming : c[1] = "variable_type"

\* The positions in requests of the requests of a kind, and of those that
\* failed
Issued(request) == {i \in 1..Len(requests) : requests[i].request = request}

Failed == {i \in 1..Len(requests) : requests[i].result = "Failure"}

\* process has returned
Returned_process == rename_file.pc = "idle" /\ rename_file.was_successful # None

\* C30: a rename request is issued only after old_path was found to exist;
\* a delete request only when new_path was found to exist and overwrite is
\* true, and then before the rename; none is issued when new_path exists and
\* overwrite is false; and when process has returned after old_path was
\* missing, new_path existed without overwrite, the delete failed or the
\* rename failed, both outputs are "" and the status is unsuccessful.
C30_RequestsAreGuarded ==
    /\ Issued("rename") # {} => rename_file.old_path_exists
    /\ Issued("delete") # {} =>
           rename_file.old_path_exists /\ rename_file.new_path_exists /\ rename_file.overwrite
    /\ \A i \in Issued("delete"), j \in Issued("rename") : i < j
    /\ (rename_file.new_path_exists /\ Issued("rename") # {}) =>
           \E i \in Issued("delete") : requests[i].result = "Success"
    /\ (rename_file.new_path_exists /\ ~rename_file.overwrite) => requests = <<>>
    /\ ( /\ Returned_process
         /\ \/ ~rename_file.old_path_exists
            \/ rename_file.new_path_exists /\ ~rename_file.overwrite
            \/ Failed # {} ) =>
           /\ rename_file.parameter_values.old_path_output = <<>>
           /\ rename_file.parameter_values.new_path_output = <<>>
           /\ rename_file.was_successful = "False"

\* The destination existed, overwrite was true, the delete succeeded and
\* the rename then failed, after an earlier run had succeeded
C30_Witness ==
    /\ Returned_process
    /\ Len(requests) = 2
    /\ requests[1] = Request("delete", rename_file.new_path, "Success")
    /\ requests[2] = Request("rename", rename_file.old_path, "Failure")
    /\ rename_file.was_successful = "False"
    /\ "new_path_output" \in DOMAIN rename_file.parameter_output_values

====
